---- MODULE Spec2Model ----
(***************************************************************************)
(* Model of ImageCompressor.compress_to_size                               *)
(* (src/compressors/image_compressor.py, lines 182-456): the size-targeted *)
(* compression engine with its file-system effects.                        *)
(*                                                                         *)
(* A path is a tuple of components: <<stem, ext>> is "stem.ext" (stem is   *)
(* itself a tuple of name parts), and string concatenation of a suffix is  *)
(* tuple concatenation: output_path + ".temp.jpg" is                       *)
(* output_path \o <<"temp", "jpg">>.                                       *)
(* The file system fs is a function from the existing paths to file        *)
(* contents [tag, size, w, h, by]; tag "partial" is a file that has been   *)
(* opened for writing and not completed, by is the request that wrote it   *)
(* (0: present before any request).                                        *)
(* The float arguments tolerance_percent and scale_factor are fixed point, *)
(* in units of 1/FloatUnit (tolerance_percent 500 is 5 %, scale_factor 50  *)
(* is 0.5).                                                                *)
(* Sizes are bytes.  tolerance = target_size_bytes * (tolerance_percent /  *)
(* 100) is kept exact by comparing 100 * size with                         *)
(* target_size_bytes * (100 + tolerance_percent), both scaled by FloatUnit.*)
(* Scales are fixed point, in units of 1/ScaleUnit.                        *)
(***************************************************************************)
EXTENDS Integers, Sequences, FiniteSets, TLC

VARIABLES fs, st

vars == <<fs, st>>

Reqs == {1, 2}

(* bound of the model: target_size_kb ranges over 1..MaxKB *)
MaxKB == 1

(* ---------------- program constants ---------------- *)
QualityLow == 1
QualityHigh == 95
max_iterations == 10
ScaleUnit == 10000
(* min_scale = 0.05 *)
min_scale == 500
(* scale_factor_for_size *= 0.7 *)
ShrinkNum == 7
ShrinkDen == 10
(* tiny = max(10, int(dim * 0.2)) *)
TinyMin == 10
TinyNum == 2
TinyDen == 10
BytesPerKB == 1024
(* unit of the float arguments tolerance_percent and scale_factor *)
FloatUnit == 100

(* ---------------- paths and the file system ---------------- *)
NoPath == <<>>

Exists(f, p) == p \in DOMAIN f

Remove(f, p) == [q \in (DOMAIN f) \ {p} |-> f[q]]

WriteFile(f, p, c) == [q \in (DOMAIN f) \cup {p} |-> IF q = p THEN c ELSE f[q]]

Rename(f, a, b) == IF a = b THEN f ELSE WriteFile(Remove(f, a), b, f[a])

Partial(r) == [tag |-> "partial", size |-> 0, w |-> 0, h |-> 0, by |-> r]

Decodable(f, p) == Exists(f, p) /\ f[p].tag # "partial"

(* output_path.lower().endswith('.webp') *)
EndsWithWebp(p) == p[Len(p)] = "webp"

(* os.path.splitext(output_path)[0] + '.webp' *)
WebpOutput(p) == IF EndsWithWebp(p) THEN p ELSE SubSeq(p, 1, Len(p) - 1) \o <<"webp">>

(* base + "_target_size" + ext *)
DefaultOutput(p) == <<p[1] \o <<"_target_size">>, p[2]>>

(* extensions for which Image.save finds an encoder *)
KnownExts == {"png", "jpg", "webp"}

(* ---------------- sizes and the tolerance window ---------------- *)
TargetBytes(kb) == kb * BytesPerKB

(* size <= target_size_bytes + tolerance *)
WithinMax(s, size) ==
  100 * FloatUnit * size <= s.target_size_bytes * (100 * FloatUnit + s.tolerance_percent)

(* size >= target_size_bytes - tolerance (min_size) *)
WithinMin(s, size) ==
  100 * FloatUnit * size >= s.target_size_bytes * (100 * FloatUnit - s.tolerance_percent)

(* The sizes an encode can measure, relative to the target t: far below the
   window, inside it and <= t, inside it and > t, far above it. *)
SizeSmall(t) == t \div 2
SizeFit(t) == t - (t \div 64)
SizeEdge(t) == t + (t \div 32)
SizeOver(t) == 2 * t

Sizes(t) == {SizeSmall(t), SizeFit(t), SizeEdge(t), SizeOver(t)}

(* codec behaviour of a request: "free" measures any size and may throw,
   "mono" measures a probe size that is non-decreasing in the quality (<=
   target up to quality thr, above it beyond), the others are deterministic
   encoders *)
EncSizes(s, step) ==
  LET t == IF s.target_size_bytes > 0 THEN s.target_size_bytes ELSE BytesPerKB IN
  CASE s.codec = "free" -> IF step = "prescale" THEN {SizeSmall(t), SizeOver(t)} ELSE Sizes(t)
    [] s.codec = "fit"  -> {SizeFit(t)}
    [] s.codec = "over" -> {SizeOver(t)}
    [] s.codec = "p2"   -> IF step \in {"probe", "prescale"} THEN {SizeOver(t)} ELSE {SizeFit(t)}
    [] s.codec = "conv" -> IF step = "conv" THEN {SizeOver(t)} ELSE {SizeFit(t)}
    [] s.codec = "mono" -> IF step = "probe"
                           THEN (IF s.mid <= s.thr THEN {SizeFit(t)} ELSE {SizeOver(t)})
                           ELSE {SizeFit(t), SizeOver(t)}

MayThrow(s) == s.codec = "free"

(* ---------------- scale arithmetic ---------------- *)
(* Pow03Table[g - 4], g in 5..200: the least ratio (in 1/ScaleUnit) whose
   0.3-th power is >= g / 100 *)
Pow03Table == <<
      1, 1, 2, 3, 4, 5, 7, 9, 12, 15, 18, 23, 28, 33, 40, 47, 56, 65, 75, 86, 99, 
      113, 128, 144, 162, 181, 202, 225, 249, 275, 303, 332, 364, 398, 434, 472, 
      513, 555, 601, 648, 699, 752, 808, 866, 928, 993, 1060, 1131, 1205, 1283, 
      1364, 1448, 1536, 1628, 1723, 1822, 1926, 2033, 2144, 2260, 2379, 2504, 
      2632, 2766, 2903, 3046, 3193, 3346, 3503, 3666, 3833, 4007, 4185, 4369, 
      4558, 4753, 4954, 5161, 5374, 5593, 5818, 6049, 6287, 6531, 6782, 7039, 
      7303, 7574, 7852, 8137, 8429, 8728, 9035, 9349, 9671, 10000, 10338, 10683, 
      11036, 11397, 11767, 12144, 12530, 12925, 13328, 13740, 14161, 14591, 
      15029, 15477, 15935, 16401, 16877, 17363, 17858, 18363, 18878, 19403, 
      19939, 20484, 21040, 21606, 22183, 22771, 23369, 23978, 24599, 25230, 
      25873, 26527, 27193, 27870, 28559, 29260, 29973, 30697, 31434, 32184, 
      32945, 33720, 34506, 35306, 36119, 36944, 37783, 38635, 39500, 40379, 
      41271, 42177, 43097, 44030, 44978, 45940, 46917, 47908, 48913, 49933, 
      50968, 52018, 53082, 54162, 55258, 56368, 57494, 58636, 59794, 60967, 
      62157, 63363, 64585, 65823, 67078, 68350, 69638, 70943, 72266, 73605, 
      74962, 76336, 77728, 79137, 80564, 82009, 83472, 84953, 86453, 87971, 
      89508, 91063, 92637, 94230, 95842, 97473, 99124, 100794 >>

(* size_ratio ** 0.3, rounded down to a multiple of 0.01 (at most 2.00) *)
Pow03(ratio) ==
  LET G == {g \in 5..200 : Pow03Table[g - 4] <= ratio}
  IN IF G = {} THEN 0 ELSE 100 * (CHOOSE g \in G : \A k \in G : k <= g)

Max(a, b) == IF a >= b THEN a ELSE b

(* int(dimension * scale) *)
Scaled(dim, scale) == (dim * scale) \div ScaleUnit


(* ---------------- requests ---------------- *)
SrcLarge == [tag |-> "src", size |-> 5000, w |-> 1000, h |-> 800, by |-> 0]
SrcSmall == [tag |-> "src", size |-> 300, w |-> 40, h |-> 30, by |-> 0]
OldFile == [tag |-> "old", size |-> 777, w |-> 64, h |-> 64, by |-> 0]

PathOf(stem, ext) == <<(<<stem>>), ext>>

(* a request before compress_to_size is entered *)
NewReq(inp, out, kb, tol, sf, codec, pc) ==
  [pc |-> pc, outcome |-> "none", result |-> NoPath, phase |-> 0,
   input_path |-> inp, given_output |-> out, target_size_kb |-> kb,
   tolerance_percent |-> tol, scale_factor |-> sf, codec |-> codec,
   output_path |-> out, dest |-> NoPath, target_size_bytes |-> 0,
   temp_path |-> NoPath, processing_path |-> NoPath, current_size |-> 0,
   low |-> 0, high |-> 0, best_quality |-> 0, best_size |-> 0,
   best_file |-> NoPath, webp_output |-> NoPath, mid |-> 0,
   temp_compressed |-> NoPath, img_width |-> 0, img_height |-> 0,
   created |-> FALSE, scale_factor_for_size |-> 0, iteration |-> 0,
   new_width |-> 0, new_height |-> 0, temp_resized |-> NoPath,
   final_attempt |-> NoPath, tiny_width |-> 0, tiny_height |-> 0,
   nprobe |-> 0, enc2 |-> 0, enc3 |-> 0, probe_fit |-> FALSE,
   selected |-> 0, conv_failed |-> FALSE,
   dest_before |-> <<>>, dest_changes |-> 0, dest_bad |-> FALSE,
   touched |-> FALSE, src_width |-> 0, src_height |-> 0, encoded |-> 0, probed |-> {}, max_feasible |-> 0,
   resizes |-> 0, p2_over |-> 0, thr |-> 0, run |-> 1, first |-> <<>>, cli |-> <<>>]

Idle == NewReq(NoPath, NoPath, 0, 0, <<>>, "free", "idle")

(* (input_path, output_path) pairs of a single request; NoPath is None *)
PathPairs ==
  { <<PathOf("a", "png"), NoPath>>,
    <<PathOf("a", "png"), PathOf("b", "webp")>>,
    <<PathOf("a", "png"), PathOf("b", "xyz")>>,
    <<PathOf("a", "webp"), PathOf("a", "png")>> }

ScaleFactors == { <<>>, <<100>>, <<50>>, <<5>> }

TolerancePercents == {5 * FloatUnit}

Sources == {SrcLarge, SrcSmall}

(* files present before the request, besides the source: none, one at the
   destination, one at the destination's .webp sibling *)
DestOf(pp) == IF pp[2] = NoPath THEN DefaultOutput(pp[1]) ELSE pp[2]

PreExisting(pp) ==
  { {}, {DestOf(pp)}, {WebpOutput(DestOf(pp))} }

InitFs(pp, src, pre) ==
  [p \in {pp[1]} \cup pre |-> IF p = pp[1] THEN src ELSE OldFile]

Init ==
  \E pp \in PathPairs, src \in Sources, sf \in ScaleFactors,
     kb \in 1..MaxKB, tol \in TolerancePercents :
    \E pre \in PreExisting(pp) :
      /\ fs = InitFs(pp, src, pre)
      /\ st = [r \in Reqs |->
                 IF r = 1 THEN NewReq(pp[1], pp[2], kb, tol, sf, "free", "start")
                 ELSE Idle]

(* ---------------- steps ---------------- *)
Changed(f, f2, p) ==
  \/ Exists(f, p) # Exists(f2, p)
  \/ Exists(f, p) /\ Exists(f2, p) /\ f[p] # f2[p]

(* the step taken arrives by a rename of a complete file onto p *)
RenamedOnto(f, f2, p) ==
  /\ Exists(f2, p) /\ f2[p].tag # "partial"
  /\ \E t \in (DOMAIN f) \ (DOMAIN f2) : f[t] = f2[p]

(* history of the destination path of request q over one step *)
Observe(q, f, f2) ==
  IF q.dest # NoPath /\ q.pc # "idle" /\ Changed(f, f2, q.dest)
  THEN [q EXCEPT !.dest_changes = IF @ < 3 THEN @ + 1 ELSE @,
                 !.dest_bad = @ \/ ~RenamedOnto(f, f2, q.dest)]
  ELSE q

(* request r moves to s2 and the file system to f2 *)
Step(r, s2, f2) ==
  /\ fs' = f2
  /\ st' = [q \in Reqs |->
              Observe(IF q = r THEN [s2 EXCEPT !.touched = @ \/ f2 # fs] ELSE st[q], fs, f2)]

Raise(s) == [s EXCEPT !.pc = "finally", !.outcome = "raised"]

RaiseOutside(s) == [s EXCEPT !.pc = "done", !.outcome = "raised"]

(* a return statement that does not leave the function *)
ReturnFallsThrough(s, path, ph) == [s EXCEPT !.pc = "finally"]

(* return output_path, through the finally clause *)
Return(s, path, ph) ==
  [s EXCEPT !.pc = "finally", !.outcome = "returned", !.result = path, !.phase = ph]

RemoveIfExists(f, p) == IF Exists(f, p) THEN Remove(f, p) ELSE f

(* every step reading the source, pre-scaled or not *)
ProcessingPathSource(pre, tp, inp) == inp

(* lines 222, 225-227: processing_path *)
ProcessingPath(pre, tp, inp) == IF pre THEN tp ELSE inp

(* lines 197-227: validation, output path, tolerance window, temp_path *)
Start(r) ==
  LET s == st[r] IN
  /\ s.pc = "start"
  /\ IF ~Exists(fs, s.input_path) \/ ~Decodable(fs, s.input_path)
     THEN Step(r, RaiseOutside(s), fs)
     ELSE IF s.scale_factor # <<>> /\ (s.scale_factor[1] < 10 \/ s.scale_factor[1] > 100)
     THEN Step(r, RaiseOutside(s), fs)
     ELSE
       LET out == IF s.given_output = NoPath THEN DefaultOutput(s.input_path)
                  ELSE s.given_output
           pre == s.scale_factor # <<>> /\ s.scale_factor[1] # 100
           tp == IF pre THEN out \o <<"temp", "jpg">> ELSE NoPath
       IN Step(r, [s EXCEPT !.output_path = out, !.dest = out,
                     !.src_width = fs[s.input_path].w, !.src_height = fs[s.input_path].h,
                     !.dest_before = IF Exists(fs, out) THEN <<fs[out]>> ELSE <<>>,
                     !.target_size_bytes = TargetBytes(s.target_size_kb),
                     !.temp_path = tp,
                     !.processing_path = ProcessingPath(pre, tp, s.input_path),
                     !.pc = IF pre THEN "prescale" ELSE "getsize"], fs)

(* lines 229-241: open the source, resize, open temp_path for writing *)
PrescaleOpen(r) ==
  LET s == st[r]
      nw == (fs[s.input_path].w * s.scale_factor[1]) \div 100
      nh == (fs[s.input_path].h * s.scale_factor[1]) \div 100
  IN
  /\ s.pc = "prescale"
  /\ IF ~Decodable(fs, s.input_path)
     THEN Step(r, RaiseOutside(s), RemoveIfExists(fs, s.temp_path))
     ELSE IF nw < 1 \/ nh < 1
     THEN Step(r, RaiseOutside(s), RemoveIfExists(fs, s.temp_path))
     ELSE Step(r, [s EXCEPT !.new_width = nw, !.new_height = nh, !.resizes = @ + 1,
                     !.pc = "prescale_write"],
               WriteFile(fs, s.temp_path, Partial(r)))

(* line 241 completes, or throws into lines 246-249 *)
PrescaleWrite(r) ==
  LET s == st[r] IN
  /\ s.pc = "prescale_write"
  /\ \/ \E sz \in EncSizes(s, "prescale") :
          Step(r, [s EXCEPT !.pc = "getsize"],
               WriteFile(fs, s.temp_path,
                 [tag |-> "jpg", size |-> sz, w |-> s.new_width, h |-> s.new_height, by |-> r]))
     \/ /\ MayThrow(s)
        /\ Step(r, RaiseOutside(s), RemoveIfExists(fs, s.temp_path))

(* lines 252-274: current_size and the initial search state *)
GetSize(r) ==
  LET s == st[r] IN
  /\ s.pc = "getsize"
  /\ IF ~Exists(fs, s.processing_path)
     THEN Step(r, RaiseOutside(s), fs)
     ELSE Step(r, [s EXCEPT !.current_size = fs[s.processing_path].size,
                     !.low = QualityLow, !.high = QualityHigh,
                     !.best_quality = QualityHigh,
                     !.best_size = fs[s.processing_path].size,
                     !.best_file = NoPath,
                     !.webp_output = WebpOutput(s.output_path),
                     !.pc = "p1_loop"], fs)


(* the midpoint rounded up *)
MidUp(low, high) == (low + high + 1) \div 2

(* line 281: mid = (low + high) // 2 *)
Mid(low, high) == (low + high) \div 2

(* lines 280-292: next probe; open processing_path, open temp_compressed *)
P1Open(r) ==
  LET s == st[r]
      m == Mid(s.low, s.high)
      tc == s.webp_output \o <<"temp", m, "webp">>
      s1 == [s EXCEPT !.mid = m, !.temp_compressed = tc]
  IN
  /\ s.pc = "p1_loop"
  /\ s.low <= s.high
  /\ IF ~Decodable(fs, s.processing_path)
     THEN Step(r, Raise(s1), RemoveIfExists(fs, tc))
     ELSE Step(r, [s1 EXCEPT !.img_width = fs[s.processing_path].w,
                      !.img_height = fs[s.processing_path].h,
                      !.nprobe = @ + 1, !.probed = @ \cup {m}, !.pc = "p1_write"],
               WriteFile(fs, tc, Partial(r)))

(* size <= target_size_bytes: the probe becomes the best attempt *)
Feasible(s, size) == size <= s.target_size_bytes

(* line 292 completes, or throws into lines 293-296 *)
P1Write(r) ==
  LET s == st[r] IN
  /\ s.pc = "p1_write"
  /\ \/ \E sz \in EncSizes(s, "probe") :
          Step(r, [s EXCEPT !.probe_fit = @ \/ WithinMax(s, sz),
                     !.max_feasible = IF Feasible(s, sz) /\ s.mid > @ THEN s.mid ELSE @,
                     !.encoded = @ + 1, !.pc = "p1_decide"],
               WriteFile(fs, s.temp_compressed,
                 [tag |-> "probe", size |-> sz, w |-> s.img_width, h |-> s.img_height, by |-> r]))
     \/ /\ MayThrow(s)
        /\ Step(r, Raise(s), RemoveIfExists(fs, s.temp_compressed))

(* the lower bound set to the probe itself *)
RaiseLowToMid(mid) == mid

(* line 311: low = mid + 1 *)
RaiseLow(mid) == mid + 1

(* the upper bound set to the probe itself *)
LowerHighToMid(mid) == mid

(* the upper bound stepping over the quality below the probe *)
LowerHighByTwo(mid) == mid - 2

(* line 315: high = mid - 1 *)
LowerHigh(mid) == mid - 1

(* the probe decision deleting no file *)
P1DecideKeepsAll(r) ==
  LET s == st[r] IN
  /\ s.pc = "p1_decide"
  /\ IF ~Exists(fs, s.temp_compressed)
     THEN Step(r, Raise(s), fs)
     ELSE LET compressed_size == fs[s.temp_compressed].size IN
       IF Feasible(s, compressed_size)
       THEN Step(r, [s EXCEPT !.best_quality = s.mid, !.best_size = compressed_size,
                       !.best_file = s.temp_compressed, !.low = RaiseLow(s.mid),
                       !.pc = "p1_loop"], fs)
       ELSE Step(r, [s EXCEPT !.high = LowerHigh(s.mid), !.pc = "p1_loop"], fs)

(* the feasible branch dropping the new probe instead of the previous best *)
P1DecideKeepsFirst(r) ==
  LET s == st[r] IN
  /\ s.pc = "p1_decide"
  /\ IF ~Exists(fs, s.temp_compressed)
     THEN Step(r, Raise(s), fs)
     ELSE LET compressed_size == fs[s.temp_compressed].size IN
       IF Feasible(s, compressed_size)
       THEN Step(r, [s EXCEPT !.best_quality = s.mid, !.best_size = compressed_size,
                       !.best_file = IF s.best_file # NoPath THEN s.best_file
                                     ELSE s.temp_compressed,
                       !.low = RaiseLow(s.mid), !.pc = "p1_loop"],
                 IF s.best_file # NoPath THEN Remove(fs, s.temp_compressed) ELSE fs)
       ELSE Step(r, [s EXCEPT !.high = LowerHigh(s.mid), !.pc = "p1_loop"],
                 Remove(fs, s.temp_compressed))

(* lines 299-315: measure the probe and move low or high *)
P1Decide(r) ==
  LET s == st[r] IN
  /\ s.pc = "p1_decide"
  /\ IF ~Exists(fs, s.temp_compressed)
     THEN Step(r, Raise(s), fs)
     ELSE LET compressed_size == fs[s.temp_compressed].size IN
       IF Feasible(s, compressed_size)
       THEN Step(r, [s EXCEPT !.best_quality = s.mid, !.best_size = compressed_size,
                       !.best_file = s.temp_compressed, !.low = RaiseLow(s.mid),
                       !.pc = "p1_loop"],
                 IF s.best_file # NoPath THEN RemoveIfExists(fs, s.best_file) ELSE fs)
       ELSE Step(r, [s EXCEPT !.high = LowerHigh(s.mid), !.pc = "p1_loop"],
                 Remove(fs, s.temp_compressed))

(* lines 280, 318-321: the loop ends; with a best file, clear webp_output *)
P1Exit(r) ==
  LET s == st[r] IN
  /\ s.pc = "p1_loop"
  /\ s.low > s.high
  /\ IF s.best_file # NoPath /\ Exists(fs, s.best_file)
     THEN Step(r, [s EXCEPT !.selected = fs[s.best_file].size, !.pc = "p1_rename"],
               RemoveIfExists(fs, s.webp_output))
     ELSE Step(r, [s EXCEPT !.pc = "p2_init"], fs)

(* lines 322-325 *)
P1Rename(r) ==
  LET s == st[r] IN
  /\ s.pc = "p1_rename"
  /\ IF ~Exists(fs, s.best_file)
     THEN Step(r, Raise(s), fs)
     ELSE Step(r, [s EXCEPT !.pc = IF s.webp_output # s.output_path
                                    THEN "conv_open" ELSE "p1_check"],
               Rename(fs, s.best_file, s.webp_output))

(* the except clause without the reassignment of output_path *)
KeepWebpNoReassign(s) == [s EXCEPT !.conv_failed = TRUE, !.pc = "p1_check"]

(* the except clause re-raising like the handlers of the probes *)
KeepWebpReraise(s) == Raise([s EXCEPT !.conv_failed = TRUE])

(* lines 331-335: the re-encode failed, the .webp file is kept *)
KeepWebp(s) ==
  [s EXCEPT !.output_path = s.webp_output, !.conv_failed = TRUE, !.pc = "p1_check"]

(* lines 326-328: open webp_output, open output_path for writing *)
ConvOpen(r) ==
  LET s == st[r] IN
  /\ s.pc = "conv_open"
  /\ IF ~Decodable(fs, s.webp_output)
     THEN Step(r, KeepWebp(s), fs)
     ELSE IF s.output_path[Len(s.output_path)] \notin KnownExts
     THEN Step(r, KeepWebp(s), fs)
     ELSE Step(r, [s EXCEPT !.created = ~Exists(fs, s.output_path),
                     !.img_width = fs[s.webp_output].w,
                     !.img_height = fs[s.webp_output].h,
                     !.pc = "conv_write"],
               WriteFile(fs, s.output_path, Partial(r)))

(* line 328 completes, or throws into lines 331-335; a failed save leaves
   the opened file behind, or removes it when the save created it *)
ConvWrite(r) ==
  LET s == st[r] IN
  /\ s.pc = "conv_write"
  /\ \/ \E sz \in EncSizes(s, "conv") :
          Step(r, [s EXCEPT !.pc = "conv_rm"],
               WriteFile(fs, s.output_path,
                 [tag |-> "conv", size |-> sz, w |-> s.img_width, h |-> s.img_height, by |-> r]))
     \/ /\ MayThrow(s)
        /\ \/ Step(r, KeepWebp(s), fs)
           \/ /\ s.created
              /\ Step(r, KeepWebp(s), RemoveIfExists(fs, s.output_path))

(* line 330, inside the try of line 326 *)
ConvRemove(r) ==
  LET s == st[r] IN
  /\ s.pc = "conv_rm"
  /\ IF ~Exists(fs, s.webp_output)
     THEN Step(r, KeepWebp(s), fs)
     ELSE Step(r, [s EXCEPT !.pc = "p1_check"], Remove(fs, s.webp_output))

(* no acceptance test: the Phase 1 result is returned whatever its size *)
Accept1Always(s, final_size) == TRUE

(* the acceptance test with the lower bound of the window added *)
Accept1Window(s, final_size) == WithinMin(s, final_size) /\ WithinMax(s, final_size)

(* line 342: final_size <= target_size_bytes + tolerance *)
Accept1(s, final_size) == WithinMax(s, final_size)

(* lines 337-343 *)
P1Check(r) ==
  LET s == st[r] IN
  /\ s.pc = "p1_check"
  /\ IF ~Exists(fs, s.output_path)
     THEN Step(r, Raise(s), fs)
     ELSE IF Accept1(s, fs[s.output_path].size)
     THEN Step(r, Return(s, s.output_path, 1), fs)
     ELSE Step(r, [s EXCEPT !.pc = "p2_init"], fs)


(* lines 350-355: max((target_size_bytes / best_size) ** 0.3, min_scale) *)
InitialScale(s) ==
  LET size_ratio == IF s.best_size > 0
                    THEN (s.target_size_bytes * ScaleUnit) \div s.best_size
                    ELSE ScaleUnit \div 2
  IN Max(Pow03(size_ratio), min_scale)

(* the shrink without the re-clamp to min_scale *)
NextScaleNoFloor(scale) == (scale * ShrinkNum) \div ShrinkDen

(* lines 410-411 *)
NextScale(scale) == Max((scale * ShrinkNum) \div ShrinkDen, min_scale)

(* lines 350-359; a negative size_ratio raised to 0.3 is a complex number,
   and max() of it and min_scale throws *)
P2Init(r) ==
  LET s == st[r] IN
  /\ s.pc = "p2_init"
  /\ IF s.best_size > 0 /\ s.target_size_bytes < 0
     THEN Step(r, Raise(s), fs)
     ELSE Step(r, [s EXCEPT !.scale_factor_for_size = InitialScale(s),
                     !.iteration = 0, !.pc = "p2_loop"], fs)

(* lines 361-384: next iteration; dimensions, open temp_resized *)
P2Open(r) ==
  LET s == st[r]
      it == s.iteration + 1
      tr == s.output_path \o <<"temp_resized", it, "webp">>
  IN
  /\ s.pc = "p2_loop"
  /\ s.iteration < max_iterations
  /\ IF ~Decodable(fs, s.processing_path)
     THEN Step(r, Raise([s EXCEPT !.iteration = it]), fs)
     ELSE LET nw == Scaled(fs[s.processing_path].w, s.scale_factor_for_size)
              nh == Scaled(fs[s.processing_path].h, s.scale_factor_for_size)
              s1 == [s EXCEPT !.iteration = it, !.new_width = nw, !.new_height = nh,
                              !.temp_resized = tr]
          IN IF nw < 1 \/ nh < 1
             THEN Step(r, Raise(s1), RemoveIfExists(fs, tr))
             ELSE Step(r, [s1 EXCEPT !.enc2 = @ + 1, !.pc = "p2_write"],
                       WriteFile(fs, tr, Partial(r)))

(* line 384 completes, or throws into lines 385-388 *)
P2Write(r) ==
  LET s == st[r] IN
  /\ s.pc = "p2_write"
  /\ \/ \E sz \in EncSizes(s, "resized") :
          Step(r, [s EXCEPT !.encoded = @ + 1,
                     !.p2_over = IF WithinMax(s, sz) THEN @ ELSE @ + 1,
                     !.pc = "p2_decide"],
               WriteFile(fs, s.temp_resized,
                 [tag |-> "resized", size |-> sz, w |-> s.new_width, h |-> s.new_height, by |-> r]))
     \/ /\ MayThrow(s)
        /\ Step(r, Raise(s), RemoveIfExists(fs, s.temp_resized))

(* the acceptance test against the target without the tolerance *)
Accept2Target(s, resized_size) == resized_size <= s.target_size_bytes

(* the acceptance test with tolerance_percent taken as a fraction *)
Accept2Fraction(s, resized_size) ==
  100 * FloatUnit * resized_size
    <= s.target_size_bytes * (100 * FloatUnit + 100 * s.tolerance_percent)

(* line 396: resized_size <= target_size_bytes + tolerance *)
Accept2(s, resized_size) == WithinMax(s, resized_size)

(* lines 391-399, 407-411 *)
P2Decide(r) ==
  LET s == st[r] IN
  /\ s.pc = "p2_decide"
  /\ IF ~Exists(fs, s.temp_resized)
     THEN Step(r, Raise(s), fs)
     ELSE IF Accept2(s, fs[s.temp_resized].size)
     THEN Step(r, [s EXCEPT !.pc = "p2_rename"], RemoveIfExists(fs, s.output_path))
     ELSE Step(r, [s EXCEPT !.scale_factor_for_size = NextScale(@), !.pc = "p2_loop"],
               Remove(fs, s.temp_resized))

(* lines 400-406 *)
P2Rename(r) ==
  LET s == st[r] IN
  /\ s.pc = "p2_rename"
  /\ IF ~Exists(fs, s.temp_resized)
     THEN Step(r, Raise(s), fs)
     ELSE Step(r, Return(s, s.output_path, 2), Rename(fs, s.temp_resized, s.output_path))

(* lines 361, 418-421: the loop is exhausted *)
P2Exit(r) ==
  LET s == st[r] IN
  /\ s.pc = "p2_loop"
  /\ s.iteration >= max_iterations
  /\ Step(r, [s EXCEPT !.final_attempt = s.output_path \o <<"final_attempt", "webp">>,
                !.pc = "p3_open"],
          RemoveIfExists(fs, s.temp_resized))

(* the reduction without the floor of 10 pixels *)
TinyNoFloor(dim) == (dim * TinyNum) \div TinyDen

(* lines 429-430: max(10, int(dimension * 0.2)) *)
Tiny(dim) == Max(TinyMin, (dim * TinyNum) \div TinyDen)

(* lines 422-436: open processing_path, open final_attempt *)
P3Open(r) ==
  LET s == st[r] IN
  /\ s.pc = "p3_open"
  /\ IF ~Decodable(fs, s.processing_path)
     THEN Step(r, Raise(s), RemoveIfExists(fs, s.final_attempt))
     ELSE Step(r, [s EXCEPT !.tiny_width = Tiny(fs[s.processing_path].w),
                     !.tiny_height = Tiny(fs[s.processing_path].h),
                     !.img_width = fs[s.processing_path].w,
                     !.img_height = fs[s.processing_path].h,
                     !.enc3 = @ + 1, !.pc = "p3_write"],
               WriteFile(fs, s.final_attempt, Partial(r)))

(* line 436 completes, or throws into lines 437-440 *)
P3Write(r) ==
  LET s == st[r] IN
  /\ s.pc = "p3_write"
  /\ \/ \E sz \in EncSizes(s, "final") :
          Step(r, [s EXCEPT !.encoded = @ + 1, !.pc = "p3_rmout"],
               WriteFile(fs, s.final_attempt,
                 [tag |-> "final", size |-> sz, w |-> s.tiny_width, h |-> s.tiny_height, by |-> r]))
     \/ /\ MayThrow(s)
        /\ Step(r, Raise(s), RemoveIfExists(fs, s.final_attempt))

(* lines 443-444 *)
P3RemoveOut(r) ==
  LET s == st[r] IN
  /\ s.pc = "p3_rmout"
  /\ Step(r, [s EXCEPT !.pc = "p3_rename"], RemoveIfExists(fs, s.output_path))

(* lines 445-451 *)
P3Rename(r) ==
  LET s == st[r] IN
  /\ s.pc = "p3_rename"
  /\ IF ~Exists(fs, s.final_attempt)
     THEN Step(r, Raise(s), fs)
     ELSE Step(r, Return(s, s.output_path, 3), Rename(fs, s.final_attempt, s.output_path))

(* lines 452-455; a try block left without return or raise would go on
   to the code after the finally clause (line 457) *)
Finally(r) ==
  LET s == st[r] IN
  /\ s.pc = "finally"
  /\ Step(r, [s EXCEPT !.pc = IF s.outcome = "none" THEN "after_finally" ELSE "done"],
          IF s.temp_path # NoPath THEN RemoveIfExists(fs, s.temp_path) ELSE fs)

Next ==
  \E r \in Reqs :
    \/ Start(r)
    \/ PrescaleOpen(r)
    \/ PrescaleWrite(r)
    \/ GetSize(r)
    \/ P1Open(r)
    \/ P1Write(r)
    \/ P1Decide(r)
    \/ P1Exit(r)
    \/ P1Rename(r)
    \/ ConvOpen(r)
    \/ ConvWrite(r)
    \/ ConvRemove(r)
    \/ P1Check(r)
    \/ P2Init(r)
    \/ P2Open(r)
    \/ P2Write(r)
    \/ P2Decide(r)
    \/ P2Rename(r)
    \/ P2Exit(r)
    \/ P3Open(r)
    \/ P3Write(r)
    \/ P3RemoveOut(r)
    \/ P3Rename(r)
    \/ Finally(r)

Spec == Init /\ [][Next]_vars

(* Two requests with distinct sources and distinct destinations that share
   directory and stem (b.png and b.jpg), run interleaved at any step, each
   with a deterministic encoder that never throws. *)
Codecs == {"fit", "over", "p2", "conv"}

Init2 ==
  \E c1 \in Codecs, c2 \in Codecs, sf \in { <<>>, <<50>> } :
    /\ fs = [p \in {PathOf("a", "png"), PathOf("c", "jpg")} |-> SrcLarge]
    /\ st = [r \in Reqs |->
               IF r = 1
               THEN NewReq(PathOf("a", "png"), PathOf("b", "png"), 1, 5 * FloatUnit, sf, c1, "start")
               ELSE NewReq(PathOf("c", "jpg"), PathOf("b", "jpg"), 1, 5 * FloatUnit, <<>>, c2, "start")]

SpecTwo == Init2 /\ [][Next]_vars

(* One request whose arguments violate a precondition: <<target_size_kb,
   tolerance_percent, scale_factor>>. *)
InvalidArgs ==
  { <<1, 5 * FloatUnit, <<5>> >>, <<1, 5 * FloatUnit, <<200>> >>,
    <<1, 0, <<>> >>, <<1, -5 * FloatUnit, <<50>> >>,
    <<0, 5 * FloatUnit, <<>> >>, <<-1, 5 * FloatUnit, <<50>> >> }

InitInvalid ==
  \E pp \in PathPairs, a \in InvalidArgs :
    /\ fs = InitFs(pp, SrcLarge, {})
    /\ st = [r \in Reqs |->
               IF r = 1 THEN NewReq(pp[1], pp[2], a[1], a[2], a[3], "free", "start")
               ELSE Idle]

SpecInvalid == InitInvalid /\ [][Next]_vars

(* ---------------- the same request run twice ---------------- *)
(* what the first run left: outcome, phase, returned path, size found there *)
Summary(s, f) ==
  [outcome |-> s.outcome, phase |-> s.phase, result |-> s.result,
   size |-> IF s.result # NoPath /\ Exists(f, s.result) THEN f[s.result].size ELSE -1]

(* compress_to_size is called again with the same arguments, on the file
   system the first call left *)
Rerun(r) ==
  LET s == st[r] IN
  /\ s.pc = "done"
  /\ s.run = 1
  /\ fs' = fs
  /\ st' = [st EXCEPT ![r] =
              [NewReq(s.input_path, s.given_output, s.target_size_kb,
                      s.tolerance_percent, s.scale_factor, s.codec, "start")
                 EXCEPT !.run = 2, !.first = <<Summary(s, fs)>>]]

NextRerun == Next \/ \E r \in Reqs : Rerun(r)

(* one request with a deterministic encoder *)
InitRerun ==
  \E pp \in PathPairs, src \in Sources, sf \in {<<>>, <<50>>}, codec \in Codecs :
    \E pre \in PreExisting(pp) :
      /\ fs = InitFs(pp, src, pre)
      /\ st = [r \in Reqs |->
                 IF r = 1 THEN NewReq(pp[1], pp[2], 1, 5 * FloatUnit, sf, codec, "start")
                 ELSE Idle]

SpecRerun == InitRerun /\ [][NextRerun]_vars

(* ---------------- encoders with a size monotone in the quality ---------------- *)
(* thr: the largest quality whose encode measures <= target (0: none) *)
Thresholds == 0..QualityHigh

(* one request; its encoder is monotone with any threshold, or free *)
InitMono ==
  \E pp \in PathPairs, sf \in {<<>>, <<50>>}, kb \in 1..MaxKB :
    \E c \in ({"mono"} \X Thresholds) \cup {<<"free", 0>>} :
      /\ fs = InitFs(pp, SrcLarge, {})
      /\ st = [r \in Reqs |->
                 IF r = 1
                 THEN [NewReq(pp[1], pp[2], kb, 5 * FloatUnit, sf, c[1], "start")
                         EXCEPT !.thr = c[2]]
                 ELSE Idle]

SpecMono == InitMono /\ [][Next]_vars

(* ---------------- the command line in size mode ---------------- *)
(* base + "_compressed" + ext *)
CliDefaultOutput(p) == <<p[1] \o <<"_compressed">>, p[2]>>

(* the module-level compress_to_size(input_path, output_path,
   target_size_kb, tolerance_percent, tolerance, scale_factor): the
   tolerance_percent and scale_factor it hands to the engine *)
EngineArgs(tolerance_percent, tolerance, scale_factor) ==
  [tolerance_percent |-> IF tolerance # <<>> THEN tolerance[1] ELSE tolerance_percent,
   scale_factor |-> scale_factor]

(* process_single_image in size mode; the call of line 191 passes
   tolerance and scale_factor as the fourth and fifth positional arguments,
   the sixth parameter keeps its default None *)
ProcessSingleImage(r) ==
  LET s == st[r]
      c == s.cli[1]
  IN
  /\ s.pc = "cli"
  /\ fs' = fs
  /\ IF \/ ~Exists(fs, s.input_path)
        \/ c.scale_factor # <<>> /\ (c.scale_factor[1] < 10 \/ c.scale_factor[1] > 100)
     THEN st' = [st EXCEPT ![r].pc = "done", ![r].outcome = "refused"]
     ELSE LET out == IF s.given_output = NoPath THEN CliDefaultOutput(s.input_path)
                     ELSE s.given_output
              a == EngineArgs(c.tolerance, c.scale_factor, <<>>)
          IN st' = [st EXCEPT ![r] =
                      [NewReq(s.input_path, out, s.target_size_kb, a.tolerance_percent,
                              a.scale_factor, s.codec, "start")
                         EXCEPT !.cli = s.cli]]

NextCli == Next \/ \E r \in Reqs : ProcessSingleImage(r)

CliTolerances == {5 * FloatUnit, 10 * FloatUnit}

(* one request, entered from the command line (-s 1 -t tolerance
   [-c scale]) or by a direct call of the engine *)
InitCli ==
  \E pp \in PathPairs, src \in Sources, sf \in ScaleFactors, t \in CliTolerances,
     codec \in Codecs, direct \in BOOLEAN :
    /\ fs = InitFs(pp, src, {})
    /\ st = [r \in Reqs |->
               IF r # 1 THEN Idle
               ELSE IF direct THEN NewReq(pp[1], pp[2], 1, t, sf, codec, "start")
               ELSE [NewReq(pp[1], pp[2], 1, 0, <<>>, codec, "cli")
                       EXCEPT !.cli = <<[tolerance |-> t, scale_factor |-> sf]>>]]

SpecCli == InitCli /\ [][NextCli]_vars

TypeOK == \A r \in Reqs : st[r].pc \in {"idle", "cli", "start", "prescale", "prescale_write",
  "getsize", "p1_loop", "p1_write", "p1_decide", "p1_rename", "conv_open", "conv_write",
  "conv_rm", "p1_check", "p2_init", "p2_loop", "p2_write", "p2_decide", "p2_rename",
  "p3_open", "p3_write", "p3_rmout", "p3_rename", "finally", "after_finally", "done"}


(* ======================= properties ======================= *)
Returned(r) == st[r].outcome = "returned"

Raised(r) == st[r].outcome = "raised"

ValidRequest(r) == st[r].tolerance_percent > 0 /\ st[r].target_size_kb > 0

(* C1, as stated: whenever compress_to_size returns normally, the file at
   the returned path has size <= target_size_bytes * (1 + tolerance_percent
   / 100), whichever phase produced the result. *)
C1_AnyPhaseWithinMax ==
  \A r \in Reqs :
    Returned(r) /\ ValidRequest(r) =>
      Exists(fs, st[r].result) /\ WithinMax(st[r], fs[st[r].result].size)

(* C1, amended: whenever compress_to_size returns normally from Phase 1 or
   Phase 2, the file at the returned path has size <= target_size_bytes *
   (1 + tolerance_percent / 100); Phase 3 is not bound by it. *)
C1_Phase12WithinMax ==
  \A r \in Reqs :
    Returned(r) /\ ValidRequest(r) /\ st[r].phase \in {1, 2} =>
      Exists(fs, st[r].result) /\ WithinMax(st[r], fs[st[r].result].size)

C1_Witness ==
  \E r \in Reqs :
    /\ Returned(r) /\ st[r].phase = 2 /\ st[r].pc = "done"
    /\ fs[st[r].result].size > st[r].target_size_bytes

(* C2, as stated: after a normal return a file exists at the caller-supplied
   output_path, on every path through Phases 1, 2 and 3. *)
C2_FileAtOutputPath ==
  \A r \in Reqs : Returned(r) => Exists(fs, st[r].dest)

(* C2, amended: after a normal return a completely written file exists at
   the returned path; the returned path is output_path unless the Phase 1
   re-encode into the destination container failed, and then it is the
   intermediate .webp path. *)
C2_FileAtReturnedPath ==
  \A r \in Reqs :
    Returned(r) =>
      /\ Decodable(fs, st[r].result)
      /\ st[r].result = IF st[r].conv_failed THEN st[r].webp_output ELSE st[r].dest

C2_Witness ==
  \E r \in Reqs :
    /\ Returned(r) /\ st[r].pc = "done" /\ st[r].conv_failed
    /\ st[r].given_output # NoPath
    /\ ~Exists(fs, st[r].dest)
    /\ Exists(fs, st[r].result)

(* C3, as stated: the Phase 1 best attempt is accepted as the final result
   only if its size lies inside [target - tolerance, target + tolerance]; a
   best attempt below target - tolerance is not returned by Phase 1. *)
C3_Phase1InsideWindow ==
  \A r \in Reqs :
    Returned(r) /\ st[r].phase = 1 /\ Exists(fs, st[r].result) =>
      /\ WithinMin(st[r], fs[st[r].result].size)
      /\ WithinMax(st[r], fs[st[r].result].size)

(* C3, amended: the Phase 1 best attempt is accepted as the final result
   exactly when the file at output_path (after the optional re-encode)
   measures <= target + tolerance; there is no lower bound, and a best
   attempt below target - tolerance is returned. *)
C3_Phase1UpperBoundOnly ==
  [][\A r \in Reqs :
       st[r].pc = "p1_check" /\ Exists(fs, st[r].output_path) /\ st'[r] # st[r] =>
         ((st'[r].outcome = "returned" /\ st'[r].phase = 1)
            <=> 100 * FloatUnit * fs[st[r].output_path].size
                  <= st[r].target_size_bytes * (100 * FloatUnit + st[r].tolerance_percent))]_vars

C3_Witness ==
  \E r \in Reqs :
    /\ Returned(r) /\ st[r].phase = 1
    /\ Exists(fs, st[r].result)
    /\ ~WithinMin(st[r], fs[st[r].result].size)


(* C4, as stated: if any Phase 1 probe measured a size <= target +
   tolerance, no Phase 2 or Phase 3 encode is ever performed for that
   request. *)
C4_NoDownscaleAfterFittingProbe ==
  \A r \in Reqs : st[r].probe_fit => st[r].enc2 = 0 /\ st[r].enc3 = 0

(* C5: once the Phase 3 encode has completed, the call can only go on to
   return normally: the file written has max(10, int(0.2 * w)) x
   max(10, int(0.2 * h)) pixels, w x h being the working image, and it is
   renamed to output_path and returned whatever its size. *)
C5_Phase3Unconditional ==
  [][\A r \in Reqs :
       st[r].pc \in {"p3_rmout", "p3_rename"} /\ st'[r] # st[r] =>
         LET fa == st[r].final_attempt
             w == fs[st[r].processing_path].w
             h == fs[st[r].processing_path].h
         IN /\ Exists(fs, fa) /\ fs[fa].tag = "final"
            /\ fs[fa].w = (IF (2 * w) \div 10 > 10 THEN (2 * w) \div 10 ELSE 10)
            /\ fs[fa].h = (IF (2 * h) \div 10 > 10 THEN (2 * h) \div 10 ELSE 10)
            /\ st'[r].outcome # "raised"
            /\ \/ st'[r].pc = "p3_rename"
               \/ /\ st'[r].outcome = "returned" /\ st'[r].phase = 3
                  /\ st'[r].result = st[r].output_path
                  /\ ~Exists(fs', fa)
                  /\ Exists(fs', st[r].output_path)
                  /\ fs'[st[r].output_path] = fs[fa]]_vars

C5_Witness ==
  \E r \in Reqs :
    /\ Returned(r) /\ st[r].phase = 3
    /\ Exists(fs, st[r].result)
    /\ ~WithinMax(st[r], fs[st[r].result].size)
    /\ fs[st[r].result].w = 10

(* The counts of C6: the number of encodes of a call is bounded whatever
   sizes are measured: Phase 1 makes at most 7 probes and has low > high after the
   7th, Phase 2 makes at most 10 iterations, Phase 3 makes exactly one
   encode, and every step of the call lowers a natural-number measure, so
   every call ends. *)
C6_Counts ==
  \A r \in Reqs :
    /\ st[r].nprobe <= 7
    /\ (st[r].nprobe = 7 /\ st[r].pc = "p1_loop" => st[r].low > st[r].high)
    /\ st[r].iteration <= 10 /\ st[r].enc2 <= 10
    /\ st[r].enc3 <= 1
    /\ (st[r].phase = 3 => st[r].enc3 = 1)

(* a measure of what is left of the call, by position: the interval of the
   binary search in Phase 1, the iterations left in Phase 2 *)
C6_Measure(s) ==
  CASE s.pc = "idle" -> 0
    [] s.pc = "start" -> 1000
    [] s.pc = "prescale" -> 990
    [] s.pc = "prescale_write" -> 980
    [] s.pc = "getsize" -> 970
    [] s.pc = "p1_loop" -> 500 + 3 * (s.high - s.low + 1) + 2
    [] s.pc = "p1_write" -> 500 + 3 * (s.high - s.low + 1) + 1
    [] s.pc = "p1_decide" -> 500 + 3 * (s.high - s.low + 1)
    [] s.pc = "p1_rename" -> 450
    [] s.pc = "conv_open" -> 440
    [] s.pc = "conv_write" -> 430
    [] s.pc = "conv_rm" -> 420
    [] s.pc = "p1_check" -> 410
    [] s.pc = "p2_init" -> 400
    [] s.pc = "p2_loop" -> 100 + 3 * (10 - s.iteration) + 3
    [] s.pc = "p2_write" -> 100 + 3 * (10 - s.iteration) + 5
    [] s.pc = "p2_decide" -> 100 + 3 * (10 - s.iteration) + 4
    [] s.pc = "p2_rename" -> 50
    [] s.pc = "p3_open" -> 40
    [] s.pc = "p3_write" -> 30
    [] s.pc = "p3_rmout" -> 20
    [] s.pc = "p3_rename" -> 10
    [] s.pc = "finally" -> 5
    [] s.pc = "done" -> 0

(* C6: on every step the counts of C6_Counts hold (at most 7 probes, 10
   iterations, one Phase 3 encode) and the measure of the stepping call
   decreases and stays a natural number, so the call ends after a bounded
   number of encodes. *)
C6_BoundedEncodes ==
  [][/\ C6_Counts'
     /\ \A r \in Reqs :
          st'[r] # st[r] =>
            /\ C6_Measure(st'[r]) >= 0
            /\ C6_Measure(st'[r]) < C6_Measure(st[r])]_vars

C6_Witness ==
  \E r \in Reqs :
    /\ st[r].pc = "done" /\ Returned(r) /\ st[r].phase = 3
    /\ st[r].nprobe = 7 /\ st[r].enc2 = 10 /\ st[r].enc3 = 1


(* engine-created temporary paths: those with an appended suffix *)
IsTempPath(p) == Len(p) > 2

(* C7, as stated: when compress_to_size has exited by exception, every
   temporary file created during the request has been deleted. *)
C7_NoTempAfterException ==
  \A r \in Reqs :
    st[r].pc = "done" /\ Raised(r) => \A p \in DOMAIN fs : ~IsTempPath(p)

(* C8, as stated: after a normal return no engine-created temporary file
   remains (among them the intermediate .webp when another container was
   written), and exactly one file written by the request remains. *)
C8_OneOutputNoTemp ==
  \A r \in Reqs :
    st[r].pc = "done" /\ Returned(r) =>
      /\ \A p \in DOMAIN fs : ~IsTempPath(p)
      /\ Cardinality({p \in DOMAIN fs : fs[p].by = r}) = 1

(* C9, as stated: during one request the destination path changes at most
   once, and only by a rename of a completely written temp file onto it. *)
C9_DestinationWrittenOnceByRename ==
  \A r \in Reqs : ~st[r].dest_bad /\ st[r].dest_changes <= 1

(* C10, as stated: two requests with distinct sources and distinct
   destinations do not disturb each other: neither fails on a path the
   other created or removed, and when both have ended both have returned
   and the output of each is in place, written by that request. *)
C10_RequestsIndependent ==
  \A r \in Reqs :
    /\ ~Raised(r)
    /\ ((\A q \in Reqs : st[q].pc = "done") =>
          /\ Returned(r)
          /\ Exists(fs, st[r].result)
          /\ fs[st[r].result].by = r
          /\ fs[st[r].result].tag # "partial")


(* a precondition of compress_to_size is violated *)
InvalidRequest(r) ==
  \/ st[r].scale_factor # <<>>
       /\ (st[r].scale_factor[1] < 10 \/ st[r].scale_factor[1] > 100)
  \/ st[r].tolerance_percent <= 0
  \/ st[r].target_size_kb <= 0

(* C11, as stated: a call whose scale_factor is outside [0.1, 1.0], whose
   tolerance_percent is <= 0 or whose target size is <= 0 fails at once: it
   never gets past the validation, it ends by raising, and it has created,
   modified or deleted no file. *)
C11_InvalidInputRejected ==
  \A r \in Reqs :
    InvalidRequest(r) /\ st[r].pc # "idle" =>
      /\ st[r].pc \in {"start", "done"}
      /\ ~st[r].touched
      /\ (st[r].pc = "done" => Raised(r))


(* C12, as stated: a probe whose encode throws is abandoned and the search
   goes on, so a call that has started probing ends by raising only if no
   encode of any phase has succeeded. *)
C12_FailsOnlyIfEveryProbeFailed ==
  \A r \in Reqs :
    Raised(r) /\ st[r].nprobe > 0 => st[r].encoded = 0


(* C13: when Phase 1 selected a best attempt and the re-encode into the
   destination container fails, the call does not raise: it goes on to
   return, from Phase 1, the path of the intermediate .webp file, and that
   file exists, completely written, with the size measured for the
   selected probe. *)
C13_FallbackToWebp ==
  \A r \in Reqs :
    ValidRequest(r) /\ st[r].conv_failed =>
      /\ st[r].pc \in {"p1_check", "finally", "done"}
      /\ ~Raised(r)
      /\ (st[r].pc # "p1_check" =>
            Returned(r) /\ st[r].phase = 1 /\ st[r].result = st[r].webp_output)
      /\ st[r].output_path = st[r].webp_output
      /\ Exists(fs, st[r].webp_output)
      /\ fs[st[r].webp_output].tag = "probe"
      /\ fs[st[r].webp_output].size = st[r].selected

C13_Witness ==
  \E r \in Reqs :
    /\ st[r].pc = "done" /\ Returned(r) /\ st[r].conv_failed
    /\ st[r].result # st[r].dest
    /\ Exists(fs, st[r].result)
    /\ fs[st[r].result].size = st[r].selected


(* Phase 1 retained a probe whose measured size is inside the window *)
BestInWindow(r) ==
  /\ st[r].best_file # NoPath
  /\ WithinMin(st[r], st[r].best_size)
  /\ WithinMax(st[r], st[r].best_size)

(* C14: when Phase 1 retained a probe with size <= target and inside the
   tolerance window, the returned file has exactly the size measured for
   that probe, whatever the extension of the destination path. *)
C14_ReturnedSizeIsProbeSize ==
  \A r \in Reqs :
    ValidRequest(r) /\ Returned(r) /\ BestInWindow(r) =>
      /\ Exists(fs, st[r].result)
      /\ fs[st[r].result].size = st[r].best_size

(* C14 amended: the returned file is the selected probe's file, with the
   size measured for it, when the destination path ends in .webp or when
   the re-encode into the destination container failed. *)
C14_ProbeSizeWhenNotReencoded ==
  \A r \in Reqs :
    /\ ValidRequest(r) /\ Returned(r) /\ st[r].best_file # NoPath
    /\ (st[r].webp_output = st[r].dest \/ st[r].conv_failed)
    => /\ st[r].phase = 1
       /\ st[r].result = st[r].webp_output
       /\ Exists(fs, st[r].result)
       /\ fs[st[r].result].tag = "probe"
       /\ fs[st[r].result].size = st[r].best_size

C14_Witness ==
  \E r \in Reqs :
    /\ st[r].pc = "done" /\ Returned(r) /\ BestInWindow(r)
    /\ st[r].webp_output = st[r].dest /\ ~st[r].conv_failed
    /\ st[r].nprobe > 1
    /\ fs[st[r].result].size = st[r].best_size


(* scale_factor is given and differs from 1.0 *)
PreScaled(r) == st[r].scale_factor # <<>> /\ st[r].scale_factor[1] # FloatUnit

(* the dimensions every phase has to work from *)
BaseWidth(r) ==
  IF PreScaled(r) THEN (st[r].src_width * st[r].scale_factor[1]) \div FloatUnit
  ELSE st[r].src_width

BaseHeight(r) ==
  IF PreScaled(r) THEN (st[r].src_height * st[r].scale_factor[1]) \div FloatUnit
  ELSE st[r].src_height

(* the request is between the measurement of current_size and the finally clause *)
InSearch(r) ==
  st[r].pc \notin {"idle", "start", "prescale", "prescale_write", "finally", "done"}

(* C15: with a scale_factor different from 1.0 exactly one resize, to
   int(w*s) x int(h*s), is made before the first probe, and every probe of
   Phase 1, every resize of Phase 2 and the resize of Phase 3 work from the
   pre-scaled image; without scale_factor, or with 1.0, there is no resize,
   no pre-scale file, and every phase works from the source. *)
C15_PrescaleOnceThenBase ==
  \A r \in Reqs :
    ValidRequest(r) =>
      /\ st[r].pc \in {"prescale", "prescale_write"} =>
           PreScaled(r) /\ st[r].nprobe = 0 /\ st[r].encoded = 0
      /\ ~PreScaled(r) => st[r].resizes = 0
      /\ InSearch(r) /\ PreScaled(r) =>
           /\ st[r].resizes = 1
           /\ st[r].processing_path = st[r].temp_path
           /\ st[r].processing_path # st[r].input_path
           /\ Exists(fs, st[r].temp_path)
           /\ fs[st[r].temp_path].tag = "jpg"
           /\ fs[st[r].temp_path].w = BaseWidth(r)
           /\ fs[st[r].temp_path].h = BaseHeight(r)
      /\ InSearch(r) /\ ~PreScaled(r) =>
           /\ st[r].temp_path = NoPath
           /\ st[r].processing_path = st[r].input_path
           /\ \A p \in DOMAIN fs : fs[p].tag # "jpg"
      /\ st[r].pc = "p1_write" =>
           st[r].img_width = BaseWidth(r) /\ st[r].img_height = BaseHeight(r)
      /\ st[r].pc = "p2_write" =>
           /\ st[r].new_width = Scaled(BaseWidth(r), st[r].scale_factor_for_size)
           /\ st[r].new_height = Scaled(BaseHeight(r), st[r].scale_factor_for_size)
      /\ st[r].pc = "p3_write" =>
           /\ st[r].tiny_width = Tiny(BaseWidth(r))
           /\ st[r].tiny_height = Tiny(BaseHeight(r))

C15_Witness ==
  \E r \in Reqs :
    /\ st[r].pc = "p3_write" /\ st[r].scale_factor = <<50>>
    /\ st[r].src_width = 1000 /\ st[r].src_height = 800
    /\ fs[st[r].temp_path].w = 500 /\ fs[st[r].temp_path].h = 400
    /\ st[r].nprobe > 0 /\ st[r].enc2 = max_iterations
    /\ st[r].tiny_width = 100 /\ st[r].tiny_height = 80


(* the Phase 1 loop has ended and no probe measured more than the target *)
AllProbesFeasible(r) ==
  /\ st[r].nprobe > 0
  /\ st[r].high = QualityHigh
  /\ st[r].low = QualityHigh + 1

(* C16: when every Phase 1 probe measured a size <= target, the selected
   quality is 95, no Phase 2 or Phase 3 encode is made and the call ends by
   returning the Phase 1 result, whatever the destination path. *)
C16_AllFeasibleEndsInPhase1 ==
  \A r \in Reqs :
    ValidRequest(r) /\ AllProbesFeasible(r) =>
      /\ st[r].best_quality = QualityHigh
      /\ st[r].pc \notin {"p2_init", "p2_loop"}
      /\ st[r].enc2 = 0 /\ st[r].enc3 = 0
      /\ (st[r].pc = "done" => Returned(r) /\ st[r].phase = 1)


(* C17: with a deterministic encoder, a second run of a request whose first
   run returned, started on the file system the first run left, returns
   too, from the same phase, the same path, with a file of the same size. *)
C17_RerunSameResult ==
  \A r \in Reqs :
    st[r].run = 2 /\ st[r].pc = "done" /\ st[r].first[1].outcome = "returned" =>
      /\ Returned(r)
      /\ st[r].phase = st[r].first[1].phase
      /\ st[r].result = st[r].first[1].result
      /\ Exists(fs, st[r].result)
      /\ fs[st[r].result].size = st[r].first[1].size


(* C18: a request entered from the command line with -c s and -t t reaches
   the engine with scale_factor = s and tolerance_percent = t, and a scale
   different from 1.0 leads to the pre-scale of the image before the search. *)
C18_CliPassesScaleAndTolerance ==
  \A r \in Reqs :
    st[r].cli # <<>> /\ st[r].pc # "cli" /\ st[r].outcome # "refused" =>
      /\ st[r].scale_factor = st[r].cli[1].scale_factor
      /\ st[r].tolerance_percent = st[r].cli[1].tolerance
      /\ (InSearch(r) /\ st[r].cli[1].scale_factor \notin {<<>>, <<FloatUnit>>} =>
            st[r].resizes = 1)


(* the Phase 1 loop has just ended *)
LoopEnded(r) == st[r].pc = "p1_loop" /\ st[r].low > st[r].high

(* C19: when the Phase 1 loop ends, a best attempt is retained exactly when
   some probe measured <= target, and it is the file of the highest-quality
   such probe, with the size measured for it; with an encoder whose size is
   non-decreasing in the quality it is the encode at the largest quality in
   1..95 with size <= target, and there is none exactly when the encode at
   quality 1 is above the target. *)
C19_BestIsHighestFeasible ==
  \A r \in Reqs :
    ValidRequest(r) /\ LoopEnded(r) =>
      /\ (st[r].best_file # NoPath) = (st[r].max_feasible > 0)
      /\ st[r].best_file # NoPath =>
           /\ st[r].best_quality = st[r].max_feasible
           /\ st[r].best_file = st[r].webp_output \o <<"temp", st[r].max_feasible, "webp">>
           /\ Exists(fs, st[r].best_file)
           /\ fs[st[r].best_file].size = st[r].best_size
           /\ st[r].best_size <= st[r].target_size_bytes
      /\ st[r].codec = "mono" =>
           /\ (st[r].best_file = NoPath) = (st[r].thr < QualityLow)
           /\ (st[r].thr >= QualityLow => st[r].best_quality = st[r].thr)

C19_Witness ==
  \E r \in Reqs :
    /\ LoopEnded(r) /\ st[r].codec = "mono" /\ st[r].thr = 47
    /\ st[r].best_quality = 47 /\ st[r].nprobe = 7
    /\ Exists(fs, st[r].best_file)


(* C20: throughout Phase 1 the search state is well formed: 1 <= low,
   high <= 95 and low <= high + 1 in every state; a probe is made only with
   low <= mid <= high, so every probed quality lies in 1..95; no quality is
   probed twice; and a retained best attempt has size <= target, hence
   <= the upper bound of the tolerance window. *)
C20_SearchStateWellFormed ==
  \A r \in Reqs :
    ValidRequest(r) /\ InSearch(r) /\ st[r].pc # "getsize" =>
      /\ QualityLow <= st[r].low
      /\ st[r].high <= QualityHigh
      /\ st[r].low <= st[r].high + 1
      /\ st[r].probed \subseteq QualityLow..QualityHigh
      /\ Cardinality(st[r].probed) = st[r].nprobe
      /\ st[r].pc \in {"p1_write", "p1_decide"} =>
           /\ st[r].low <= st[r].mid /\ st[r].mid <= st[r].high
           /\ st[r].mid \in st[r].probed
      /\ st[r].best_file # NoPath =>
           /\ st[r].best_size <= st[r].target_size_bytes
           /\ WithinMax(st[r], st[r].best_size)
           /\ st[r].best_quality \in st[r].probed

C20_Witness ==
  \E r \in Reqs :
    /\ st[r].pc = "p1_decide" /\ st[r].nprobe = 7
    /\ st[r].best_file # NoPath
    /\ st[r].high < QualityHigh /\ st[r].low > QualityLow
    /\ st[r].low = st[r].high


(* the phase a position of the function belongs to; 4 is the finally clause
   and the end of the call *)
PhaseOf(pc) ==
  CASE pc \in {"idle", "cli", "start"} -> -1
    [] pc \in {"prescale", "prescale_write"} -> 0
    [] pc \in {"getsize", "p1_loop", "p1_write", "p1_decide", "p1_rename",
               "conv_open", "conv_write", "conv_rm", "p1_check"} -> 1
    [] pc \in {"p2_init", "p2_loop", "p2_write", "p2_decide", "p2_rename"} -> 2
    [] pc \in {"p3_open", "p3_write", "p3_rmout", "p3_rename"} -> 3
    [] OTHER -> 4

(* C21: the phases run in the order 0, 1, 2, 3, no step returns to an
   earlier phase, and Phase 3 is entered only after exactly 10 Phase 2
   iterations that each measured a size > target + tolerance. *)
C21_PhasesInOrder ==
  [][\A r \in Reqs :
       /\ PhaseOf(st'[r].pc) >= PhaseOf(st[r].pc)
       /\ PhaseOf(st'[r].pc) = 3 =>
            /\ st'[r].iteration = max_iterations
            /\ st'[r].enc2 = max_iterations
            /\ st'[r].p2_over = max_iterations
            /\ st'[r].nprobe > 0]_vars

C21_Witness ==
  \E r \in Reqs :
    /\ st[r].pc = "p3_write" /\ st[r].p2_over = max_iterations
    /\ st[r].resizes = 1 /\ st[r].nprobe > 0


(* the request is inside the Phase 2 loop, its scale computed *)
InPhase2Loop(pc) == pc \in {"p2_loop", "p2_write", "p2_decide", "p2_rename"}

(* C22: the Phase 2 scale starts at max(0.05, (target / best size) ** 0.3)
   and each further iteration uses max(0.05, 0.7 * previous scale); it is
   never below 0.05 and never increases; the first iteration measuring
   <= target + tolerance is accepted at once, with no further iteration and
   no Phase 3 encode. *)
C22_Phase2ScaleSequence ==
  [][\A r \in Reqs :
       LET s == st[r]
           t == st'[r]
       IN
       /\ s.pc = "p2_init" /\ t.pc = "p2_loop" =>
            /\ t.iteration = 0
            /\ t.scale_factor_for_size = InitialScale(s)
            /\ t.scale_factor_for_size >= Pow03((s.target_size_bytes * ScaleUnit) \div s.best_size)
       /\ s.pc = "p2_decide" /\ t.pc = "p2_loop" =>
            /\ ~WithinMax(s, fs[s.temp_resized].size)
            /\ t.scale_factor_for_size =
                 Max((ShrinkNum * s.scale_factor_for_size) \div ShrinkDen, min_scale)
       /\ InPhase2Loop(t.pc) => t.scale_factor_for_size >= min_scale
       /\ InPhase2Loop(s.pc) /\ PhaseOf(t.pc) \in {2, 3} =>
            t.scale_factor_for_size <= s.scale_factor_for_size
       /\ s.pc = "p2_decide" /\ Exists(fs, s.temp_resized)
            /\ WithinMax(s, fs[s.temp_resized].size) => t.pc = "p2_rename"
       /\ t.pc = "p2_rename" \/ (t.outcome = "returned" /\ t.phase = 2) =>
            /\ t.enc3 = 0
            /\ t.enc2 = t.iteration
            /\ t.p2_over = t.iteration - 1]_vars

C22_Witness ==
  \E r \in Reqs :
    /\ st[r].pc = "done" /\ Returned(r) /\ st[r].phase = 2
    /\ st[r].iteration = max_iterations
    /\ st[r].scale_factor_for_size = min_scale
    /\ st[r].enc3 = 0


(* C23, as stated: the first quality probed in Phase 1 is 95. *)
C23_FirstProbeIs95 ==
  \A r \in Reqs : st[r].nprobe = 1 => st[r].probed = {QualityHigh}

(* C23, amended: the first quality probed is 48, the midpoint of 1..95;
   quality 95 is probed only as the seventh probe, after 48, 72, 84, 90, 93
   and 94 all measured <= target. *)
C23_FirstProbeIsMidpoint ==
  \A r \in Reqs :
    /\ st[r].nprobe = 1 => st[r].probed = {48}
    /\ st[r].nprobe >= 1 => 48 \in st[r].probed
    /\ QualityHigh \in st[r].probed =>
         /\ st[r].nprobe = 7
         /\ st[r].probed = {48, 72, 84, 90, 93, 94, 95}
         /\ st[r].max_feasible >= 94

C23_Witness ==
  \E r \in Reqs :
    /\ st[r].pc = "p1_write" /\ st[r].mid = QualityHigh
    /\ st[r].nprobe = 7 /\ st[r].best_quality = 94


(* the files of the Phase 1 probes, of the Phase 2 attempts, of Phase 3 *)
Phase1Probes == {p \in DOMAIN fs : Len(p) = 5 /\ p[3] = "temp"}

Phase2Probes == {p \in DOMAIN fs : Len(p) = 5 /\ p[3] = "temp_resized"}

Phase3Probes == {p \in DOMAIN fs : Len(p) = 4 /\ p[3] = "final_attempt"}

(* C24: at every iteration boundary of the Phase 1 loop at most one probe
   file exists, the best so far; when a Phase 2 iteration starts the file of
   the previous iteration is gone, and during it only its own file exists;
   at no instant are there more than two probe files. *)
C24_AtMostOneRetained ==
  \A r \in Reqs :
    /\ st[r].pc = "p1_loop" =>
         /\ Cardinality(Phase1Probes) <= 1
         /\ Phase1Probes \subseteq {st[r].best_file}
         /\ Phase2Probes = {} /\ Phase3Probes = {}
    /\ st[r].pc = "p2_loop" => Phase2Probes = {}
    /\ st[r].pc \in {"p2_write", "p2_decide", "p2_rename"} =>
         Phase2Probes \subseteq {st[r].temp_resized}
    /\ st[r].pc # "idle" =>
         Cardinality(Phase1Probes \cup Phase2Probes \cup Phase3Probes) <= 2

C24_Witness ==
  \E r \in Reqs :
    /\ st[r].pc = "p1_decide"
    /\ Cardinality(Phase1Probes) = 2
    /\ st[r].best_file \in Phase1Probes
    /\ st[r].temp_compressed \in Phase1Probes


(* C25: when output_path differs from input_path, the source file still
   exists with its content unchanged after compress_to_size has returned or
   raised, for every pair of paths. *)
C25_SourcePreserved ==
  \A r \in Reqs :
    /\ st[r].pc = "done" /\ (Returned(r) \/ Raised(r))
    /\ st[r].given_output # st[r].input_path
    => /\ Exists(fs, st[r].input_path)
       /\ fs[st[r].input_path].tag = "src"
       /\ fs[st[r].input_path].by = 0


(* C26: Phase 2 never upscales: in every iteration the scale is <= 1.0 and
   the dimensions of the attempt are no larger than those of the working
   image, whether Phase 1 retained no probe or retained one whose re-encode
   measured more than target + tolerance. *)
C26_Phase2NeverUpscales ==
  \A r \in Reqs :
    ValidRequest(r) /\ InPhase2Loop(st[r].pc) =>
      /\ st[r].scale_factor_for_size <= ScaleUnit
      /\ st[r].pc \in {"p2_write", "p2_decide"} =>
           /\ st[r].new_width <= BaseWidth(r)
           /\ st[r].new_height <= BaseHeight(r)


(* C27: the dimensions of the attempts never grow along the ladder: every
   Phase 2 attempt is no larger than the attempt before it, and the
   dimensions of Phase 3 are no larger than those of the tenth Phase 2
   attempt. *)
C27_DimensionsNeverGrow ==
  [][\A r \in Reqs :
       LET s == st[r]
           t == st'[r]
       IN
       /\ s.pc = "p2_loop" /\ t.pc = "p2_write" /\ s.iteration >= 1 =>
            t.new_width <= s.new_width /\ t.new_height <= s.new_height
       /\ s.pc = "p3_open" /\ t.pc = "p3_write" =>
            t.tiny_width <= s.new_width /\ t.tiny_height <= s.new_height]_vars


(* C28: a result returned from Phase 1, re-encoded into the destination
   container or not, or from Phase 2, has size <= target + tolerance; a
   returned result above the upper bound of the window comes from Phase 3. *)
C28_OnlyPhase3Exceeds ==
  \A r \in Reqs :
    ValidRequest(r) /\ Returned(r) =>
      /\ st[r].phase \in {1, 2, 3}
      /\ Exists(fs, st[r].result)
      /\ fs[st[r].result].tag # "partial"
      /\ ~WithinMax(st[r], fs[st[r].result].size) =>
           st[r].phase = 3 /\ fs[st[r].result].tag = "final"
      /\ fs[st[r].result].tag = "conv" =>
           st[r].phase = 1 /\ WithinMax(st[r], fs[st[r].result].size)

C28_Witness ==
  \E r \in Reqs :
    /\ st[r].pc = "done" /\ Returned(r) /\ st[r].phase = 1
    /\ fs[st[r].result].tag = "conv"
    /\ fs[st[r].result].size > st[r].target_size_bytes
    /\ fs[st[r].result].size # st[r].best_size


(* C29, as stated: every execution of compress_to_size returns or raises
   inside the try block of Phases 1 to 3. *)
C29_EveryCallEndsInsideTry ==
  [][\A r \in Reqs :
       st'[r].pc = "done" /\ st[r].pc # "done" =>
         st[r].pc = "finally" /\ st[r].outcome \in {"returned", "raised"}]_vars

(* C29, amended: a call ends by raising before the try block (validation,
   pre-scale, measurement of the working file), or by a return or a raise
   inside the try block of Phases 1 to 3; no execution leaves the try block
   otherwise, so the code after the finally clause is never reached. *)
C29_CodeAfterFinallyUnreachable ==
  [][\A r \in Reqs :
       LET s == st[r]
           t == st'[r]
       IN
       /\ t.pc # "after_finally"
       /\ t.pc = "finally" => t.outcome \in {"returned", "raised"} /\ PhaseOf(s.pc) \in {1, 2, 3}
       /\ t.outcome = "returned" => t.phase \in {1, 2, 3}
       /\ t.pc = "done" /\ s.pc # "done" =>
            \/ s.pc = "finally" /\ t.outcome = s.outcome
            \/ PhaseOf(s.pc) \in {-1, 0, 1} /\ s.nprobe = 0 /\ t.outcome = "raised"]_vars

C29_Witness ==
  \E r \in Reqs :
    /\ st[r].pc = "done" /\ Returned(r) /\ st[r].phase = 3
    /\ st[r].enc3 = 1 /\ st[r].enc2 = max_iterations


(* the dimensions of the current Phase 2 iteration have been computed
   (lines 365-373) *)
Phase2DimsComputed(r) ==
  /\ st[r].iteration >= 1
  /\ st[r].temp_resized = st[r].output_path \o <<"temp_resized", st[r].iteration, "webp">>

(* C30: every resize requested in Phase 0 and in Phase 2 has width >= 1 and
   height >= 1, the scale_factor being in [0.1, 1.0] and the Phase 2 scale
   >= 0.05. *)
C30_ResizeDimensionsPositive ==
  \A r \in Reqs :
    ValidRequest(r) =>
      /\ st[r].resizes >= 1 /\ st[r].iteration = 0 =>
           st[r].new_width >= 1 /\ st[r].new_height >= 1
      /\ Phase2DimsComputed(r) =>
           st[r].new_width >= 1 /\ st[r].new_height >= 1

====
